---- MODULE Spec2Model ----
(***************************************************************************)
(* Model of the Vulkan backend's resource layer of lightweightvk:          *)
(*   igl::vulkan::Buffer  (create / upload / map / unmap)                  *)
(*   igl::vulkan::Device  (the create* factory calls, shader-module        *)
(*                         source patching, texture-format capabilities)  *)
(* Offsets and sizes are size_t values; they are modelled as WordBits-bit  *)
(* unsigned integers so that the wrap-around of offset + size is visible.  *)
(***************************************************************************)
EXTENDS Integers, Sequences, FiniteSets, TLC

\* ------------------------------------------------------------------ bounds
WordBits == 2
MaxLength == 2
MaxSourceLen == 3

Modulus == 2 ^ WordBits
Word == 0 .. (Modulus - 1)
\* Byte values: the code only copies bytes, two values tell any two apart
Bytes == {0, 1}
Lengths == 0 .. MaxLength

VARIABLES
  useStaging_,    \* VulkanContext::useStaging_
  extEnabled,     \* ctx_->extensions_.enabled(VK_KHR_SHADER_NON_SEMANTIC_INFO)
  desc_,          \* Buffer::desc_ (length, storage, type)
  buffer_,        \* Buffer::buffer_, the backend allocation
  mem,            \* bytes of the backend allocation, as the device sees them
  mappedRange_,   \* Buffer::mappedRange_
  tmpBuffer_,     \* Buffer::tmpBuffer_, scratch for DEVICE_LOCAL mappings
  last,           \* the most recent call on the buffer and what it returned
  factory,        \* the most recent Device::create* call and what it returned
  compiler,       \* what the shader backend was last handed
  capsQuery       \* the most recent getTextureFormatCapabilities call

bufVars == <<desc_, buffer_, mem, mappedRange_, tmpBuffer_, last>>
ctxVars == <<useStaging_, extEnabled>>
vars == <<useStaging_, extEnabled, desc_, buffer_, mem, mappedRange_,
          tmpBuffer_, last, factory, compiler, capsQuery>>

\* ------------------------------------------------------------ small helpers
SeqsOfLen(n) == IF n = 0 THEN {<<>>} ELSE [1 .. n -> Bytes]

\* BufferRange(size, offset): the constructor's argument order
BufferRange(size, offset) == [size |-> size, offset |-> offset]

\* Offsets and sizes the application passes: everything up to the length of
\* the longest buffer (one past the end of every shorter one), and the
\* largest size_t value, which is past the end of every buffer and whose
\* sums wrap around
Probes == (0 .. MaxLength) \cup {Modulus - 1}

Ranges == {BufferRange(s, o) : s \in Probes, o \in Probes}

NullData == [null |-> TRUE, bytes |-> <<>>]

\* The host memory a caller's data pointer addresses: `size` bytes.  Bytes
\* past MaxLength can never land inside a buffer, so for longer blocks only
\* constant fills are enumerated.
DataBytes(size) ==
  IF size <= MaxLength THEN SeqsOfLen(size)
  ELSE {[i \in 1 .. size |-> b] : b \in Bytes}

DataArgs(size) == {NullData} \cup {[null |-> FALSE, bytes |-> s] : s \in DataBytes(size)}

\* ------------------------------------------------- Staging Transfer Engine
\* VulkanStagingDevice::bufferSubData: copy `size` bytes into the allocation
\* at `offset`.  A range that runs past the allocation is an out-of-bounds
\* write: the in-bounds part may or may not have been written.
InBoundsWrite(m, offset, size, bytes) ==
  [i \in 1 .. Len(m) |->
     IF (i - 1 >= offset) /\ (i - 1 < offset + size) THEN bytes[i - offset] ELSE m[i]]

bufferSubData(m, offset, size, bytes) ==
  IF offset + size <= Len(m)
    THEN {InBoundsWrite(m, offset, size, bytes)}
    ELSE {m, InBoundsWrite(m, offset, size, bytes)}

\* VulkanStagingDevice::getBufferSubData: read `size` bytes at `offset`.
getBufferSubData(m, offset, size) ==
  [i \in 1 .. size |-> m[offset + i]]

\* ------------------------------------------------------------ Buffer::create
StorageTiers == {"Private", "Shared"}
BufferTypeBits == {"Index", "Vertex", "Uniform", "Storage", "Indirect"}

\* resourceStorageToVkMemoryPropertyFlags
resourceStorageToVkMemoryPropertyFlags(storage) ==
  IF storage = "Shared" THEN {"HOST_VISIBLE", "HOST_COHERENT"} ELSE {"DEVICE_LOCAL"}

\* VulkanBuffer::isMapped: host-visible allocations are persistently mapped
isMapped(buf) == buf.valid /\ ("HOST_VISIBLE" \in buf.memFlags)

NoBuffer == [valid |-> FALSE, usageFlags |-> {}, memFlags |-> {}]

\* mutant: the demotion is left out
EffectiveStorage_NoDemotion(storage, useStaging) == storage

\* line 29-31: demotion of Private when the context has no staging
EffectiveStorage(storage, useStaging) ==
  IF (~useStaging) /\ (storage = "Private") THEN "Shared" ELSE storage

\* line 35-38: usage flags for the staging path
StagingUsageFlags(storage) ==
  IF storage = "Private" THEN {"TRANSFER_DST", "TRANSFER_SRC"} ELSE {}

\* line 44-63: usage flags from the type bits
TypeUsageFlags(type) ==
  (IF "Index" \in type THEN {"INDEX_BUFFER"} ELSE {})
  \cup (IF "Vertex" \in type THEN {"VERTEX_BUFFER"} ELSE {})
  \cup (IF "Uniform" \in type THEN {"UNIFORM_BUFFER", "SHADER_DEVICE_ADDRESS"} ELSE {})
  \cup (IF "Storage" \in type
          THEN {"STORAGE_BUFFER", "TRANSFER_DST", "SHADER_DEVICE_ADDRESS"} ELSE {})
  \cup (IF "Indirect" \in type THEN {"INDIRECT_BUFFER", "SHADER_DEVICE_ADDRESS"} ELSE {})

\* mutant: the type check never fires
InvalidBufferType_Never(type) == FALSE

\* line 40: the type check
InvalidBufferType(type) == type = {}

\* Buffer::create(desc) with the context's answer to createBuffer (allocOk).
\* Returns the new desc_, buffer_ and the Result code.
BufferCreate(desc, useStaging, allocOk) ==
  LET storage == EffectiveStorage(desc.storage, useStaging)
      d == [length |-> desc.length, storage |-> storage, type |-> desc.type]
      usageFlags == StagingUsageFlags(storage) \cup TypeUsageFlags(desc.type)
      memFlags == resourceStorageToVkMemoryPropertyFlags(storage)
  IN  IF InvalidBufferType(desc.type)
        THEN [desc |-> d, buffer |-> NoBuffer, code |-> "InvalidOperation",
              allocRequested |-> FALSE]
        ELSE IF allocOk
          THEN [desc |-> d,
                buffer |-> [valid |-> TRUE, usageFlags |-> usageFlags, memFlags |-> memFlags],
                code |-> "Ok", allocRequested |-> TRUE]
          ELSE [desc |-> d, buffer |-> NoBuffer, code |-> "RuntimeError",
                allocRequested |-> TRUE]

\* ------------------------------------------------------------ Buffer::upload
\* line 82: range.offset + range.size <= desc_.length, in size_t arithmetic
UploadInRange(range, length) ==
  ((range.offset + range.size) % Modulus) <= length

\* Buffer::upload(data, range): the possible outcomes on device contents m.
BufferUpload(m, length, data, range) ==
  IF data.null
    THEN {[code |-> "Ok", mem |-> m, staged |-> FALSE, oob |-> FALSE, asserted |-> TRUE]}
  ELSE IF ~UploadInRange(range, length)
    THEN {[code |-> "ArgumentOutOfRange", mem |-> m, staged |-> FALSE, oob |-> FALSE,
           asserted |-> TRUE]}
  ELSE {[code |-> "Ok", mem |-> m2, staged |-> TRUE,
         oob |-> (range.offset + range.size > Len(m)), asserted |-> FALSE]
          : m2 \in bufferSubData(m, range.offset, range.size, data.bytes)}

\* ------------------------------------------------------------- Buffer::unmap
\* tmpBuffer_.data(): an empty vector may hand out nullptr or not
ScratchData(tmp) ==
  IF Len(tmp) = 0 THEN {NullData, [null |-> FALSE, bytes |-> tmp]}
  ELSE {[null |-> FALSE, bytes |-> tmp]}

\* mutant: the scratch is written back at offset 0 instead of the mapped offset
BufferUnmap_AtZero(m, length, buf, mappedRange, tmp) ==
  LET asserted == (mappedRange.size = 0)
      cleared == [mappedRange EXCEPT !.size = 0]
  IN  IF ~isMapped(buf)
        THEN {[mem |-> u.mem, mappedRange |-> cleared, staged |-> u.staged,
               oob |-> u.oob, asserted |-> asserted]
                : u \in UNION {BufferUpload(m, length, d, BufferRange(Len(tmp), 0))
                                 : d \in ScratchData(tmp)}}
        ELSE {[mem |-> m, mappedRange |-> cleared, staged |-> FALSE, oob |-> FALSE,
               asserted |-> asserted]}

\* Buffer::unmap(): outcomes on (device contents, mapped range).
BufferUnmap(m, length, buf, mappedRange, tmp) ==
  LET asserted == (mappedRange.size = 0)
      cleared == [mappedRange EXCEPT !.size = 0]
  IN  IF ~isMapped(buf)
        THEN {[mem |-> u.mem, mappedRange |-> cleared, staged |-> u.staged,
               oob |-> u.oob, asserted |-> asserted]
                : u \in UNION {BufferUpload(m, length, d,
                                            BufferRange(Len(tmp), mappedRange.offset))
                                 : d \in ScratchData(tmp)}}
        ELSE {[mem |-> m, mappedRange |-> cleared, staged |-> FALSE, oob |-> FALSE,
               asserted |-> asserted]}

\* --------------------------------------------------------------- Buffer::map
\* line 110: the sanity check, safe against wrap-around
MapOutOfRange(range, length) ==
  (range.size > length) \/ (range.offset > length - range.size)

\* mutant: && in place of || between the two comparisons
MappedElsewhere_Both(mappedRange, range) ==
  (mappedRange.size # 0) /\
  ((mappedRange.size # range.size) /\ (mappedRange.offset # range.offset))

\* line 116-117: another range is still mapped
MappedElsewhere(mappedRange, range) ==
  (mappedRange.size # 0) /\
  ((mappedRange.size # range.size) \/ (mappedRange.offset # range.offset))

\* The bytes visible through the pointer map() returned
MappedView(m, buf, mappedRange, tmp) ==
  IF isMapped(buf) THEN getBufferSubData(m, mappedRange.offset, mappedRange.size)
  ELSE tmp

\* ------------------------------------------------------------------ actions
\* `last` records the most recent call on the buffer: its result code, whether
\* it returned a non-null pointer/handle (ret), whether an IGL_VERIFY /
\* IGL_ASSERT fired (asserted), whether the staging engine was invoked
\* (staged) and with a range past the allocation (oob).  range and data are
\* kept for an upload that reached the staging engine; range and before (the
\* device contents on entry) for a map that returned a pointer; afterCleanMap
\* marks an unmap that directly follows a map which returned a pointer and
\* found no other range mapped.  mapping and dirty are carried from call to
\* call: a map that reported success has not been followed by an unmap yet
\* (mapping), and the application has stored through the pointer of that
\* map since it returned (dirty).
NoCall == [op |-> "none", afterCleanMap |-> FALSE, mapping |-> FALSE, dirty |-> FALSE,
           range |-> BufferRange(0, 0),
           data |-> NullData, code |-> "Ok", ret |-> FALSE, asserted |-> FALSE,
           staged |-> FALSE, oob |-> FALSE, before |-> <<>>]

\* `factory` records the most recent Device::create* call: its descriptor
\* (arg), whether the returned handle is non-null (handle), what the caller's
\* Result object held before the call (prior) and holds after it (code),
\* whether the call stored into it (written), the Result of the resource's
\* own create() (inner) and whether the context was asked for an allocation.
NoFactoryCall == [fn |-> "none", handle |-> FALSE, written |-> FALSE, code |-> "Ok",
                  prior |-> "Ok", arg |-> <<>>, inner |-> "Ok", allocRequested |-> FALSE]

\* Result::setResult(outResult, code) followed by the return of a handle
Returned(fn, arg, prior, handle, code) ==
  [fn |-> fn, handle |-> handle, written |-> TRUE, code |-> code, prior |-> prior,
   arg |-> arg, inner |-> code, allocRequested |-> FALSE]

\* a return that leaves *outResult as the caller passed it
ReturnedSilently(fn, arg, prior, handle, inner) ==
  [fn |-> fn, handle |-> handle, written |-> FALSE, code |-> prior, prior |-> prior,
   arg |-> arg, inner |-> inner, allocRequested |-> FALSE]

NoCompile == [called |-> FALSE, api |-> "none", input |-> <<>>]

NoCaps == [asked |-> FALSE, format |-> "Invalid", features |-> <<{}, {}, {}>>, caps |-> {}]

\* State after construction: no buffer has been created, nothing was called.
InitObjects ==
  /\ desc_ = [length |-> 0, storage |-> "Shared", type |-> {}]
  /\ buffer_ = NoBuffer
  /\ mem = <<>>
  /\ mappedRange_ = BufferRange(0, 0)
  /\ tmpBuffer_ = <<>>
  /\ last = NoCall
  /\ factory = NoFactoryCall
  /\ compiler = NoCompile
  /\ capsQuery = NoCaps

Init ==
  /\ useStaging_ \in BOOLEAN
  /\ extEnabled \in BOOLEAN
  /\ InitObjects

PriorCodes == {"Ok", "RuntimeError"}

\* Device::createBuffer(desc, outResult).  Every call constructs a fresh
\* Buffer; the model follows the buffer of the most recent call.
\* desc.data is NullData or desc.length bytes; prior is what the caller's
\* Result object held before the call.
CreateBuffer(desc, prior) ==
  \E allocOk \in BOOLEAN :
  \E m0 \in SeqsOfLen(desc.length) :
    LET c == BufferCreate(desc, useStaging_, allocOk) IN
    /\ desc_' = c.desc
    /\ buffer_' = c.buffer
    /\ mappedRange_' = BufferRange(0, 0)
    /\ tmpBuffer_' = <<>>
    /\ IF c.code # "Ok"
         THEN \* line 73-75: return nullptr, outResult untouched
              /\ mem' = <<>>
              /\ factory' = [fn |-> "createBuffer", handle |-> FALSE, written |-> FALSE,
                             code |-> prior, prior |-> prior, arg |-> desc,
                             inner |-> c.code, allocRequested |-> c.allocRequested]
              /\ last' = [NoCall EXCEPT !.op = "createBuffer",
                                        !.code = c.code, !.asserted = TRUE]
         ELSE IF desc.data.null
           THEN \* line 77-79: return buffer, outResult untouched
              /\ mem' = m0
              /\ factory' = [fn |-> "createBuffer", handle |-> TRUE, written |-> FALSE,
                             code |-> prior, prior |-> prior, arg |-> desc,
                             inner |-> c.code, allocRequested |-> c.allocRequested]
              /\ last' = [NoCall EXCEPT !.op = "createBuffer",
                                        !.ret = TRUE]
           ELSE \* line 81-85: initial upload over BufferRange(desc.length, 0)
              \E u \in BufferUpload(m0, c.desc.length, desc.data,
                                    BufferRange(desc.length, 0)) :
                /\ mem' = u.mem
                /\ factory' = [fn |-> "createBuffer", handle |-> TRUE, written |-> TRUE,
                               code |-> u.code, prior |-> prior, arg |-> desc,
                               inner |-> c.code, allocRequested |-> c.allocRequested]
                /\ last' = [NoCall EXCEPT !.op = "createBuffer",
                                          !.ret = TRUE, !.code = u.code,
                                          !.staged = u.staged, !.oob = u.oob,
                                          !.asserted = u.asserted]
    /\ UNCHANGED <<ctxVars, compiler, capsQuery>>

\* Buffer::upload(data, range) called by the application
Upload(data, range) ==
  /\ buffer_.valid
  /\ \E u \in BufferUpload(mem, desc_.length, data, range) :
       /\ mem' = u.mem
       /\ last' = [NoCall EXCEPT !.op = "upload", !.mapping = last.mapping,
                                 !.dirty = last.dirty,
                                 !.range = IF u.staged THEN range ELSE BufferRange(0, 0),
                                 !.data = IF u.staged THEN data ELSE NullData,
                                 !.code = u.code, !.asserted = u.asserted,
                                 !.staged = u.staged, !.oob = u.oob]
  /\ UNCHANGED <<ctxVars, desc_, buffer_, mappedRange_, tmpBuffer_,
                 factory, compiler, capsQuery>>

\* Buffer::map(range, outResult)
Map(range) ==
  /\ buffer_.valid
  /\ IF MapOutOfRange(range, desc_.length)
       THEN /\ last' = [NoCall EXCEPT !.op = "map", !.mapping = last.mapping,
                                      !.dirty = last.dirty,
                                      !.code = "ArgumentOutOfRange"]
            /\ UNCHANGED <<mem, mappedRange_, tmpBuffer_>>
       ELSE \E u \in (IF MappedElsewhere(mappedRange_, range)
                        THEN BufferUnmap(mem, desc_.length, buffer_, mappedRange_, tmpBuffer_)
                        ELSE {[mem |-> mem, mappedRange |-> mappedRange_, staged |-> FALSE,
                               oob |-> FALSE, asserted |-> FALSE]}) :
            /\ mem' = u.mem
            /\ mappedRange_' = range
            /\ tmpBuffer_' = IF ~isMapped(buffer_)
                               THEN getBufferSubData(u.mem, range.offset, range.size)
                               ELSE tmpBuffer_
            /\ last' = [NoCall EXCEPT !.op = "map", !.ret = TRUE, !.mapping = TRUE,
                                      !.range = range,
                                      !.asserted = MappedElsewhere(mappedRange_, range),
                                      !.staged = u.staged, !.oob = u.oob,
                                      !.before = mem]
  /\ UNCHANGED <<ctxVars, desc_, buffer_, factory, compiler, capsQuery>>

\* Buffer::unmap()
Unmap ==
  /\ buffer_.valid
  /\ \E u \in BufferUnmap(mem, desc_.length, buffer_, mappedRange_, tmpBuffer_) :
       /\ mem' = u.mem
       /\ mappedRange_' = u.mappedRange
       /\ last' = [NoCall EXCEPT !.op = "unmap",
                                 !.afterCleanMap = (last.op = "map" /\ last.ret
                                                      /\ ~last.asserted),
                                 !.asserted = u.asserted, !.staged = u.staged,
                                 !.oob = u.oob]
  /\ UNCHANGED <<ctxVars, desc_, buffer_, tmpBuffer_, factory, compiler, capsQuery>>

\* The application stores byte b at index i of the pointer map() returned.
\* Host-visible: the store lands in the allocation (line 137);
\* device-local: it lands in the scratch buffer (line 131).
WriteMapped(i, b) ==
  /\ buffer_.valid
  /\ mappedRange_.size # 0
  /\ i < mappedRange_.size
  /\ IF isMapped(buffer_)
       THEN /\ mem' = [mem EXCEPT ![mappedRange_.offset + i + 1] = b]
            /\ UNCHANGED tmpBuffer_
       ELSE /\ tmpBuffer_' = [tmpBuffer_ EXCEPT ![i + 1] = b]
            /\ UNCHANGED mem
  /\ last' = [NoCall EXCEPT !.op = "write", !.mapping = last.mapping,
                            !.dirty = TRUE]
  /\ UNCHANGED <<ctxVars, desc_, buffer_, mappedRange_, factory, compiler, capsQuery>>

\* ------------------------------------------------- Device: other factories
BackendCodes == {"Ok", "RuntimeError"}

\* Device::createTexture: texture->create(sanitized) answers res
CreateTexture(desc, prior) ==
  \E res \in BackendCodes :
    /\ factory' = Returned("createTexture", desc, prior, res = "Ok", res)
    /\ UNCHANGED <<ctxVars, bufVars, compiler, capsQuery>>

\* Device::createSamplerState: samplerState->create(desc) answers res
CreateSamplerState(desc, prior) ==
  \E res \in BackendCodes :
    /\ factory' = Returned("createSamplerState", desc, prior, TRUE, res)
    /\ UNCHANGED <<ctxVars, bufVars, compiler, capsQuery>>

ShaderStages == {"Stage_Vertex", "Stage_Fragment", "Stage_Compute"}

\* desc.shaderStages: a null pointer, or the set of stages that have a module
NullStages == [present |-> FALSE, modules |-> {}]
StageSets == {NullStages} \cup {[present |-> TRUE, modules |-> ms] : ms \in SUBSET ShaderStages}

\* IShaderStages::getModule(stage) != nullptr
getModule(shaderStages, stage) == stage \in shaderStages.modules

\* Device::createComputePipeline
ComputePipelineResult(desc) ==
  IF ~desc.shaderStages.present THEN "ArgumentInvalid"
  ELSE IF ~getModule(desc.shaderStages, "Stage_Compute") THEN "ArgumentInvalid"
  ELSE "Ok"

CreateComputePipeline(desc, prior) ==
  /\ factory' = Returned("createComputePipeline", desc, prior,
                         ComputePipelineResult(desc) = "Ok", ComputePipelineResult(desc))
  /\ UNCHANGED <<ctxVars, bufVars, compiler, capsQuery>>

\* Device::createRenderPipeline, line 140-142
hasAnyAttachments(desc) ==
  (desc.colorAttachments # 0) \/ (desc.depthAttachmentFormat # "Invalid")

\* mutant: the fragment-module check is missing
RenderPipelineError_NoFragmentCheck(desc) ==
  IF ~desc.shaderStages.present THEN "Missing shader stages"
  ELSE IF ~hasAnyAttachments(desc) THEN "Need at least one attachment"
  ELSE IF ~getModule(desc.shaderStages, "Stage_Vertex") THEN "Missing vertex shader"
  ELSE "none"

\* Device::createRenderPipeline, line 135-156: the four checks in order
RenderPipelineError(desc) ==
  IF ~desc.shaderStages.present THEN "Missing shader stages"
  ELSE IF ~hasAnyAttachments(desc) THEN "Need at least one attachment"
  ELSE IF ~getModule(desc.shaderStages, "Stage_Vertex") THEN "Missing vertex shader"
  ELSE IF ~getModule(desc.shaderStages, "Stage_Fragment") THEN "Missing fragment shader"
  ELSE "none"

CreateRenderPipeline(desc, prior) ==
  /\ factory' = IF RenderPipelineError(desc) # "none"
                  THEN Returned("createRenderPipeline", desc, prior, FALSE, "ArgumentInvalid")
                  ELSE \* line 158: the pipeline is returned, outResult untouched
                       ReturnedSilently("createRenderPipeline", desc, prior, TRUE, "Ok")
  /\ UNCHANGED <<ctxVars, bufVars, compiler, capsQuery>>

RenderPipelineDescs ==
  {[shaderStages |-> ss, colorAttachments |-> c, depthAttachmentFormat |-> d] :
     ss \in StageSets, c \in 0 .. 1, d \in {"Invalid", "Z_UN16"}}

ComputePipelineDescs == {[shaderStages |-> ss] : ss \in StageSets}

\* ------------------------------------------------ Device::createShaderModule
\* Shader text is a sequence of characters over a small alphabet;
\* VersionMarker stands for the nine characters of "#version ".
Alphabet == {"#", "v", " ", "x"}
VersionMarker == <<"#", "v", " ">>

Texts == UNION {IF n = 0 THEN {<<>>} ELSE [1 .. n -> Alphabet] : n \in 0 .. MaxSourceLen}

\* strstr(text, marker) != nullptr
strstr(text, marker) ==
  \E i \in 1 .. (Len(text) - Len(marker) + 1) :
    \A j \in 1 .. Len(marker) : text[i + j - 1] = marker[j]

DebugPrintfDirective == "#extension GL_EXT_debug_printf : enable\n"

\* mutant: the directive is added whatever the extension state
extraExtensions_Always(enabled) == <<DebugPrintfDirective>>

\* line 243-248
extraExtensions(enabled) == IF enabled THEN <<DebugPrintfDirective>> ELSE <<>>

\* line 252-269: the header for vertex and compute shaders
VertexComputeHeader(enabled) ==
  <<"\n", "#", "v", " ", "460", "\n">> \o extraExtensions(enabled)
    \o <<"#extension GL_EXT_buffer_reference : require", "Bindings", "getBuffer">>

\* line 272-338: the header for fragment shaders
FragmentHeader(enabled) ==
  <<"\n", "#", "v", " ", "460", "\n">> \o extraExtensions(enabled)
    \o <<"kTextures2D", "kSamplers", "Bindings", "getBuffer", "textureSample2D">>

\* shaderStageToVkShaderStage
shaderStageToVkShaderStage(stage) ==
  CASE stage = "Stage_Vertex" -> "VK_SHADER_STAGE_VERTEX_BIT"
    [] stage = "Stage_Fragment" -> "VK_SHADER_STAGE_FRAGMENT_BIT"
    [] stage = "Stage_Compute" -> "VK_SHADER_STAGE_COMPUTE_BIT"
    [] OTHER -> "VK_SHADER_STAGE_FLAG_BITS_MAX_ENUM"

\* line 251-339: the header inserted for a stage
ShaderHeader(vkStage, enabled) ==
  (IF vkStage \in {"VK_SHADER_STAGE_VERTEX_BIT", "VK_SHADER_STAGE_COMPUTE_BIT"}
     THEN VertexComputeHeader(enabled) ELSE <<>>)
  \o (IF vkStage = "VK_SHADER_STAGE_FRAGMENT_BIT" THEN FragmentHeader(enabled) ELSE <<>>)

\* line 242: the source needs a header
NeedsHeader(source) == ~strstr(source, VersionMarker)

\* line 242-342: the text compileShader receives
PatchedSource(stage, source, enabled) ==
  IF NeedsHeader(source)
    THEN ShaderHeader(shaderStageToVkShaderStage(stage), enabled) \o source
    ELSE source

\* Device::createShaderModule(const ShaderModuleDesc&, Result*): dataSize # 0
\* selects the SPIR-V overload, otherwise the GLSL overload; res is the
\* backend's answer when it is reached.
CreateShaderModule(desc, prior) ==
  \E res \in BackendCodes :
    LET binary == desc.dataSize # 0
        empty == (~binary) /\ (Len(desc.data) = 0)
        code == IF empty THEN "ArgumentNull" ELSE res
    IN  /\ compiler' =
             IF binary THEN [called |-> TRUE, api |-> "spirv",
                             input |-> SubSeq(desc.data, 1, desc.dataSize)]
             ELSE IF empty THEN NoCompile
             ELSE [called |-> TRUE, api |-> "glsl",
                   input |-> PatchedSource(desc.stage, desc.data, extEnabled)]
        /\ factory' = Returned("createShaderModule", desc, prior, code = "Ok", code)
        /\ UNCHANGED <<ctxVars, bufVars, capsQuery>>

ShaderModuleDescs ==
  {[stage |-> st, data |-> t, dataSize |-> n] :
     st \in ShaderStages, t \in Texts, n \in {0}}
  \cup UNION {{[stage |-> st, data |-> t, dataSize |-> Len(t)] : st \in ShaderStages}
                : t \in Texts \ {<<>>}}

\* ------------------------------------ Device::getTextureFormatCapabilities
TextureFormats == {"Invalid", "RGB_F64", "RGBA_UN8", "Z_UN16"}

\* igl::vulkan::textureFormatToVkFormat
textureFormatToVkFormat(format) ==
  CASE format = "RGBA_UN8" -> "VK_FORMAT_R8G8B8A8_UNORM"
    [] format = "Z_UN16" -> "VK_FORMAT_D16_UNORM"
    [] OTHER -> "VK_FORMAT_UNDEFINED"

FormatFeatureBits == {"SAMPLED_IMAGE", "STORAGE_IMAGE", "SAMPLED_IMAGE_FILTER_LINEAR",
                      "COLOR_ATTACHMENT", "DEPTH_STENCIL_ATTACHMENT"}

\* line 436-439
contains(value, flag) == flag \subseteq value

\* line 458-472: capability bits from the feature flags
CapsFromFeatures(features) ==
  (IF "SAMPLED_IMAGE" \in features THEN {"Sampled"} ELSE {})
  \cup (IF "STORAGE_IMAGE" \in features THEN {"Storage"} ELSE {})
  \cup (IF "SAMPLED_IMAGE_FILTER_LINEAR" \in features THEN {"SampledFiltered"} ELSE {})
  \cup (IF "COLOR_ATTACHMENT" \in features THEN {"Attachment"} ELSE {})
  \cup (IF "DEPTH_STENCIL_ATTACHMENT" \in features THEN {"Attachment"} ELSE {})

\* mutant: || in place of && between the two contains() tests
WithSampledAttachment_Either(caps) ==
  IF contains(caps, {"Sampled"}) \/ contains(caps, {"Attachment"})
    THEN caps \cup {"SampledAttachment"} ELSE caps

\* line 475-478: the derived bit
WithSampledAttachment(caps) ==
  IF contains(caps, {"Sampled"}) /\ contains(caps, {"Attachment"})
    THEN caps \cup {"SampledAttachment"} ELSE caps

\* TextureFormatCapabilityBits::Unsupported is the empty mask
Unsupported == {}

\* properties = <<bufferFeatures, linearTilingFeatures, optimalTilingFeatures>>
getTextureFormatCapabilities(format, properties) ==
  IF textureFormatToVkFormat(format) = "VK_FORMAT_UNDEFINED" THEN Unsupported
  ELSE WithSampledAttachment(
         CapsFromFeatures(properties[1] \cup properties[2] \cup properties[3]))

GetTextureFormatCapabilities(format, properties) ==
  /\ capsQuery' = [asked |-> TRUE, format |-> format, features |-> properties,
                   caps |-> getTextureFormatCapabilities(format, properties)]
  /\ UNCHANGED <<ctxVars, bufVars, factory, compiler>>

\* ---------------------------------------------------------- specifications
\* Descriptors that drive the buffer life cycle: no initial data
LifecycleDescs ==
  {[length |-> l, storage |-> s, type |-> {"Vertex"}, data |-> NullData] :
     l \in Lengths, s \in StorageTiers}

\* Descriptors for the factory: every type mask, with and without data
BufferDescs ==
  UNION {{[length |-> l, storage |-> s, type |-> t, data |-> d] :
            s \in StorageTiers, t \in SUBSET BufferTypeBits,
            d \in {NullData} \cup {[null |-> FALSE, bytes |-> bs] : bs \in SeqsOfLen(l)}}
           : l \in Lengths}

InitBuffer ==
  /\ useStaging_ = TRUE
  /\ extEnabled = FALSE
  /\ InitObjects

\* One buffer of a context with staging, device-local or host-visible, is
\* followed from its creation through upload/map/unmap calls.
NextBuffer ==
  \/ /\ factory.fn = "none"
     /\ \E desc \in LifecycleDescs : CreateBuffer(desc, "Ok")
  \/ \E range \in Ranges : \E data \in DataArgs(range.size) : Upload(data, range)
  \/ \E range \in Ranges : Map(range)
  \/ Unmap
  \/ \E i \in 0 .. (MaxLength - 1) : \E b \in Bytes : WriteMapped(i, b)

SpecBuffer == InitBuffer /\ [][NextBuffer]_vars

\* One factory call per behaviour, with any descriptor.
NextDevice ==
  \/ /\ factory.fn = "none"
     /\ \E prior \in PriorCodes : \E desc \in BufferDescs : CreateBuffer(desc, prior)
  \/ /\ factory.fn = "none"
     /\ \E prior \in PriorCodes : \E desc \in {"tex2D", "texCube"} :
          CreateTexture(desc, prior)
  \/ /\ factory.fn = "none"
     /\ \E prior \in PriorCodes : \E desc \in {"linear", "nearest"} :
          CreateSamplerState(desc, prior)
  \/ /\ factory.fn = "none"
     /\ \E prior \in PriorCodes : \E desc \in ComputePipelineDescs :
          CreateComputePipeline(desc, prior)
  \/ /\ factory.fn = "none"
     /\ \E prior \in PriorCodes : \E desc \in RenderPipelineDescs :
          CreateRenderPipeline(desc, prior)
  \/ /\ factory.fn = "none"
     /\ \E prior \in PriorCodes : \E desc \in ShaderModuleDescs :
          CreateShaderModule(desc, prior)

SpecDevice == Init /\ [][NextDevice]_vars

InitCaps ==
  /\ useStaging_ = TRUE
  /\ extEnabled = FALSE
  /\ InitObjects

\* One capability query per behaviour, for any format and any properties.
NextCaps ==
  /\ ~capsQuery.asked
  /\ \E format \in TextureFormats :
     \E b \in SUBSET FormatFeatureBits :
     \E l \in SUBSET FormatFeatureBits :
     \E o \in SUBSET FormatFeatureBits :
       GetTextureFormatCapabilities(format, <<b, l, o>>)

SpecCaps == InitCaps /\ [][NextCaps]_vars

\* ------------------------------------------------------------------ claims
FactoryFns == {"createBuffer", "createTexture", "createSamplerState",
               "createComputePipeline", "createRenderPipeline", "createShaderModule"}

OutsideRange(i, range) == (i - 1 < range.offset) \/ (i - 1 >= range.offset + range.size)

\* C1: for every buffer of length L and every upload(data, range), the call
\* returns ArgumentOutOfRange if and only if range.offset + range.size > L;
\* in every other case, whatever data is, it does not return
\* ArgumentOutOfRange and hands the bytes to the staging engine.
C1_UploadRejectsIffPastEnd ==
  [][\A range \in Ranges : \A data \in DataArgs(range.size) :
       (last'.op = "upload" /\ Upload(data, range)) =>
         /\ (last'.code = "ArgumentOutOfRange")
              <=> (range.offset + range.size > desc_.length)
         /\ (last'.code # "ArgumentOutOfRange") => last'.staged]_vars

\* C2: round trip.  After a successful upload(data, range) of data bytes on a
\* buffer with no mapping active, a following map(range) returns bytes equal
\* to data over the whole range, and the upload left the bytes outside range
\* unchanged, on host-visible and on device-local buffers.
C2_UploadMapRoundTrip ==
  [][/\ \A range \in Ranges : \A data \in DataArgs(range.size) :
          (last'.op = "upload" /\ last'.staged /\ Upload(data, range)) =>
             /\ Len(mem') = Len(mem)
             /\ \A i \in 1 .. Len(mem) : OutsideRange(i, range) => mem'[i] = mem[i]
     /\ (/\ last.op = "upload" /\ last.staged /\ last.code = "Ok"
         /\ mappedRange_.size = 0
         /\ last'.op = "map"
         /\ Map(last.range)) =>
             /\ last'.ret
             /\ MappedView(mem', buffer_', mappedRange_', tmpBuffer_') = last.data.bytes
             /\ mem' = mem]_vars

\* C3 as stated: for every buffer and every in-bounds range, map(range)
\* followed immediately by unmap(), with no write through the pointer, leaves
\* every byte of the device contents as it was before the map.
C3_MapUnmapKeepsContents ==
  [][(last.op = "map" /\ last.ret /\ last'.op = "unmap") => mem' = last.before]_vars

\* C3 amended: the same, unless the buffer is device-local and a different
\* range was still mapped when map was called.
C3_MapUnmapKeepsContentsUnlessRemap ==
  [][(/\ last.op = "map" /\ last.ret
      /\ (isMapped(buffer_) \/ ~last.asserted)
      /\ last'.op = "unmap") => mem' = last.before]_vars

\* C3 witness: on a device-local buffer a non-empty range was mapped while
\* nothing else was mapped, and unmap wrote the scratch back right after.
C3_Witness ==
  /\ last.op = "unmap" /\ last.staged
  /\ last.afterCleanMap
  /\ ~isMapped(buffer_)
  /\ Len(tmpBuffer_) > 0

C5_ZeroTypeRejected ==
  (factory.fn = "createBuffer" /\ factory.arg.type = {}) =>
     /\ factory.inner = "InvalidOperation"
     /\ ~factory.allocRequested
     /\ ~buffer_.valid
     /\ ~factory.handle

C5_Witness ==
  /\ factory.fn = "createBuffer" /\ factory.arg.type = {}
  /\ factory.arg.storage = "Private" /\ useStaging_
  /\ factory.arg.length > 0 /\ ~factory.arg.data.null
  /\ ~factory.handle

\* C6: every creation call of the factory writes the caller's result object
\* before returning: an error code whenever the handle is null, Ok whenever
\* a handle is returned and no upload failed.
C6_ResultAlwaysWritten ==
  (factory.fn \in FactoryFns) =>
     /\ factory.written
     /\ (~factory.handle) => (factory.code # "Ok")
     /\ (factory.handle /\ ~(factory.fn = "createBuffer" /\ last.code # "Ok"))
          => (factory.code = "Ok")

\* C7: createRenderPipeline returns a null handle with ArgumentInvalid
\* whenever the stage set is absent, or there is neither a color nor a depth
\* attachment, or there is no vertex module, or there is no fragment module,
\* whatever the other three are; a pipeline is returned only when none holds.
C7_RenderPipelineValidation ==
  (factory.fn = "createRenderPipeline") =>
     LET d == factory.arg
         bad == \/ ~d.shaderStages.present
                \/ (d.colorAttachments = 0 /\ d.depthAttachmentFormat = "Invalid")
                \/ "Stage_Vertex" \notin d.shaderStages.modules
                \/ "Stage_Fragment" \notin d.shaderStages.modules
     IN  /\ bad => (~factory.handle /\ factory.written /\ factory.code = "ArgumentInvalid")
         /\ factory.handle => ~bad

C7_Witness ==
  /\ factory.fn = "createRenderPipeline"
  /\ factory.arg.shaderStages.present
  /\ factory.arg.shaderStages.modules = {"Stage_Vertex", "Stage_Compute"}
  /\ factory.arg.colorAttachments = 1
  /\ ~factory.handle /\ factory.code = "ArgumentInvalid"

HasVersionMarker(text) ==
  \E i \in 1 .. (Len(text) - 2) : SubSeq(text, i, i + 2) = <<"#", "v", " ">>

Elements(seq) == {seq[i] : i \in 1 .. Len(seq)}

\* C8: binary data is handed to the backend byte for byte; text with a
\* version marker is handed to the compiler as it is; text without one is
\* handed over as the header of the descriptor's stage followed by the
\* unmodified source, and the header holds the debug-printf directive if
\* and only if the extension is enabled.
C8_ShaderSourceHandedOver ==
  (factory.fn = "createShaderModule") =>
     LET d == factory.arg
         hlen == Len(compiler.input) - Len(d.data)
         header == SubSeq(compiler.input, 1, hlen)
     IN  /\ (d.dataSize # 0 \/ Len(d.data) # 0) => compiler.called
         /\ compiler.called =>
              IF d.dataSize # 0
                THEN compiler.api = "spirv" /\ compiler.input = d.data
              ELSE IF HasVersionMarker(d.data)
                THEN compiler.api = "glsl" /\ compiler.input = d.data
              ELSE /\ compiler.api = "glsl"
                   /\ hlen > 0
                   /\ SubSeq(compiler.input, hlen + 1, Len(compiler.input)) = d.data
                   /\ IF d.stage = "Stage_Fragment"
                        THEN header \in {FragmentHeader(TRUE), FragmentHeader(FALSE)}
                        ELSE header \in {VertexComputeHeader(TRUE), VertexComputeHeader(FALSE)}
                   /\ (DebugPrintfDirective \in Elements(header)) <=> extEnabled

C8_Witness ==
  /\ factory.fn = "createShaderModule"
  /\ factory.arg.stage = "Stage_Fragment"
  /\ factory.arg.dataSize = 0
  /\ factory.arg.data = <<"x", "#", "v">>
  /\ extEnabled
  /\ compiler.called
  /\ Len(compiler.input) > 3

\* C9: a format with no native equivalent yields exactly Unsupported; for
\* any other format the result is the OR of the bits derived from the union
\* of the buffer, linear and optimal feature flags, with SampledAttachment
\* set if and only if Sampled and Attachment are both set.
C9_FormatCapabilities ==
  capsQuery.asked =>
     LET f == capsQuery.features[1] \cup capsQuery.features[2] \cup capsQuery.features[3]
         caps == capsQuery.caps
     IN  IF capsQuery.format \notin {"RGBA_UN8", "Z_UN16"}
           THEN caps = {}
           ELSE /\ ("Sampled" \in caps) <=> ("SAMPLED_IMAGE" \in f)
                /\ ("Storage" \in caps) <=> ("STORAGE_IMAGE" \in f)
                /\ ("SampledFiltered" \in caps) <=> ("SAMPLED_IMAGE_FILTER_LINEAR" \in f)
                /\ ("Attachment" \in caps)
                     <=> ("COLOR_ATTACHMENT" \in f \/ "DEPTH_STENCIL_ATTACHMENT" \in f)
                /\ ("SampledAttachment" \in caps)
                     <=> ("Sampled" \in caps /\ "Attachment" \in caps)
                /\ caps \subseteq {"Sampled", "Storage", "SampledFiltered", "Attachment",
                                   "SampledAttachment"}

C9_Witness ==
  /\ capsQuery.asked
  /\ capsQuery.format = "Z_UN16"
  /\ capsQuery.features = <<{}, {"SAMPLED_IMAGE"}, {"DEPTH_STENCIL_ATTACHMENT"}>>
  /\ capsQuery.caps = {"Sampled", "Attachment", "SampledAttachment"}

\* C10: without staging support a Private request yields effective storage
\* Shared, so no buffer of such a context is Private; with staging the
\* effective storage is the requested one; the transfer-source and
\* transfer-destination usage flags of the staging path are requested exactly
\* when the effective storage is Private.
C10_StorageDemotion ==
  (factory.fn = "createBuffer") =>
     /\ ((~useStaging_) /\ factory.arg.storage = "Private") => (desc_.storage = "Shared")
     /\ (~useStaging_) => (desc_.storage # "Private")
     /\ useStaging_ => (desc_.storage = factory.arg.storage)
     /\ buffer_.valid =>
          /\ ({"TRANSFER_SRC", "TRANSFER_DST"} \subseteq buffer_.usageFlags)
               <=> (desc_.storage = "Private")
          /\ ("TRANSFER_SRC" \in buffer_.usageFlags) <=> (desc_.storage = "Private")

C10_Witness ==
  /\ factory.fn = "createBuffer"
  /\ ~useStaging_
  /\ factory.arg.storage = "Private"
  /\ desc_.storage = "Shared"
  /\ buffer_.valid
  /\ "Storage" \in desc_.type


\* C11: in every state reachable by create, upload, map and unmap calls, the
\* buffer's byte length (getSizeInBytes) equals the length given at creation,
\* the mapped-range size is 0 exactly when no mapping is active, and an
\* active mapped range lies within [0, length); a map call that reports
\* success leaves its range active until the next unmap: it becomes the
\* mapped range, and upload calls, stores through the pointer and rejected
\* map calls leave the mapped range as it is.  (One mappedRange_ per buffer:
\* at most one range is active.)
C11_BufferInvariants ==
  /\ [](buffer_.valid =>
         /\ desc_.length = factory.arg.length
         /\ Len(mem) = desc_.length
         /\ (mappedRange_.size = 0) <=> ~last.mapping
         /\ last.mapping => mappedRange_.offset + mappedRange_.size <= desc_.length)
  /\ [][/\ (last'.op = "map" /\ last'.code = "Ok") =>
             (last'.mapping /\ mappedRange_' = last'.range)
        /\ (last'.op \in {"upload", "write"}
             \/ (last'.op = "map" /\ last'.code # "Ok")) =>
             (last'.mapping = last.mapping /\ mappedRange_' = mappedRange_)]_vars


\* C12: unmap() on a buffer with no active mapping is reported as an
\* assertion, hands no bytes to the staging engine, and leaves the device
\* contents and the mapped-range marker as they were, also after an earlier
\* map/unmap pair on a device-local buffer left bytes in the scratch buffer.
C12_UnmapWithoutMapChangesNothing ==
  [][(last'.op = "unmap" /\ ~last.mapping /\ mappedRange_.size = 0) =>
       /\ last'.asserted
       /\ ~(last'.staged /\ Len(tmpBuffer_) > 0)
       /\ mem' = mem
       /\ mappedRange_' = mappedRange_]_vars


\* C13: on a device-local buffer, map called again with the identical range
\* while that range is mapped preserves the scratch contents, so the writes
\* made through the first pointer are not lost, and the following unmap
\* writes the scratch bytes to the device at the mapped offset.
C13_SameRangeRemapKeepsWrites ==
  [][/\ (/\ last'.op = "map" /\ last'.code = "Ok"
         /\ ~isMapped(buffer_)
         /\ last.mapping /\ last.dirty /\ mappedRange_.size # 0
         /\ last'.range = mappedRange_) =>
            /\ tmpBuffer_' = tmpBuffer_
            /\ mem' = mem
     /\ (/\ last'.op = "unmap"
         /\ ~isMapped(buffer_)
         /\ last.mapping /\ mappedRange_.size # 0) =>
            mem' = [i \in 1 .. Len(mem) |->
                      IF (i - 1 >= mappedRange_.offset)
                         /\ (i - 1 < mappedRange_.offset + mappedRange_.size)
                        THEN tmpBuffer_[i - mappedRange_.offset]
                        ELSE mem[i]]]_vars


\* C14: upload and map accept exactly the same ranges.  For every buffer and
\* every (offset, size) of fixed-width unsigned integers, upload of data
\* bytes returns ArgumentOutOfRange exactly when map rejects that range with
\* ArgumentOutOfRange, also when offset + size wraps around, and upload
\* never hands the staging engine a range that extends past the buffer.
C14_UploadAndMapAcceptSameRanges ==
  [][\A range \in Ranges : \A data \in DataArgs(range.size) :
       (last'.op = "upload" /\ ~data.null /\ Upload(data, range)) =>
         /\ (last'.code = "ArgumentOutOfRange") <=> MapOutOfRange(range, desc_.length)
         /\ ~last'.oob]_vars

====
